---- MODULE Spec2Model ----
(***************************************************************************)
(* KYC verification platform: the decision step of VerificationService,    *)
(* the processing of one verification attempt and the status of its record.*)
(*                                                                         *)
(* Scores, similarities and thresholds are floats in [0,1] in the source;  *)
(* they are integers in hundredths here (0.6 is 60).  processing_time is   *)
(* in tenths of a second (2.5 s is 25).  The extractor services work in    *)
(* units of 1/Unit, so that their weighted sums are exact.                 *)
(***************************************************************************)
EXTENDS Integers, FiniteSets, Sequences, TLC

VARIABLES
    settings,   \* app.core.config.settings: the two ML thresholds
    dIn,        \* decision step: the three result dicts handed to it
    dOut,       \* decision step: what the last call returned
    dPrev,      \* decision step: what the call before returned on the same input
    db,         \* verifications table: committed row of each attempt
    up,         \* upload_verification_files: position of each request
    bg,         \* process_verification_background: position and locals of each task
    rev,        \* manual_review_verification: the request in flight
    ret,        \* check_data_retention_policy: the run in flight
    pv,         \* process_verification: position and locals of one call
    ex          \* one call of an extractor (document, face, liveness service)

vars == <<settings, dIn, dOut, dPrev, db, up, bg, rev, ret, pv, ex>>

decideVars == <<dIn, dOut, dPrev, ex>>
pipeVars == <<db, up, bg, rev, ret>>
processVars == <<pv>>

None == "None"

\* Number of verification attempts (uploads) in a run.
MaxAttempts == 1

(***************************************************************************)
(* Settings (config.py).  Both thresholds are plain floats read from the   *)
(* environment, with defaults 0.6 and 0.9.                                 *)
(***************************************************************************)
FaceThresholds == {0, 60, 80, 100}
LivenessThresholds == {0, 90, 95}

DefaultSettings ==
    [FACE_MODEL_THRESHOLD |-> 60, LIVENESS_CONFIDENCE_THRESHOLD |-> 90]

Settings ==
    [FACE_MODEL_THRESHOLD : FaceThresholds,
     LIVENESS_CONFIDENCE_THRESHOLD : LivenessThresholds]

\* dict.get(key, default)
Get(d, key, default) == IF key \in DOMAIN d THEN d[key] ELSE default

(***************************************************************************)
(* VerificationService._aggregate_results                                  *)
(***************************************************************************)
\* A plausible slip: the face-match check compares with <= instead of <.
aggregate_decision_inclusive(doc_valid, doc_confidence, face_detected, face_score, liveness_passed, liveness_score, cfg) ==
    IF ~doc_valid THEN <<"rejected", "Invalid document">>
    ELSE IF ~face_detected THEN <<"rejected", "No face detected">>
    ELSE IF ~liveness_passed THEN <<"rejected", "Liveness detection failed">>
    ELSE IF face_score <= cfg.FACE_MODEL_THRESHOLD
        THEN <<"rejected", "Face match insufficient">>
    ELSE IF face_score >= 80
            /\ liveness_score >= cfg.LIVENESS_CONFIDENCE_THRESHOLD
            /\ doc_confidence >= 70
        THEN <<"verified", "All checks passed">>
    ELSE <<"manual_review", "Requires manual review">>

\* A plausible slip: the fast path asks for a similarity strictly above 0.8.
aggregate_decision_strict(doc_valid, doc_confidence, face_detected, face_score, liveness_passed, liveness_score, cfg) ==
    IF ~doc_valid THEN <<"rejected", "Invalid document">>
    ELSE IF ~face_detected THEN <<"rejected", "No face detected">>
    ELSE IF ~liveness_passed THEN <<"rejected", "Liveness detection failed">>
    ELSE IF face_score < cfg.FACE_MODEL_THRESHOLD
        THEN <<"rejected", "Face match insufficient">>
    ELSE IF face_score > 80
            /\ liveness_score >= cfg.LIVENESS_CONFIDENCE_THRESHOLD
            /\ doc_confidence >= 70
        THEN <<"verified", "All checks passed">>
    ELSE <<"manual_review", "Requires manual review">>

\* A plausible slip: the last branch falls back to the fast-path outcome.
aggregate_decision_lenient(doc_valid, doc_confidence, face_detected, face_score, liveness_passed, liveness_score, cfg) ==
    IF ~doc_valid THEN <<"rejected", "Invalid document">>
    ELSE IF ~face_detected THEN <<"rejected", "No face detected">>
    ELSE IF ~liveness_passed THEN <<"rejected", "Liveness detection failed">>
    ELSE IF face_score < cfg.FACE_MODEL_THRESHOLD
        THEN <<"rejected", "Face match insufficient">>
    ELSE IF face_score >= 80 /\ doc_confidence >= 70
        THEN <<"verified", "All checks passed">>
    ELSE <<"manual_review", "Requires manual review">>

\* A plausible slip: the last branch reports a status word, not an outcome.
aggregate_decision_pending(doc_valid, doc_confidence, face_detected, face_score, liveness_passed, liveness_score, cfg) ==
    IF ~doc_valid THEN <<"rejected", "Invalid document">>
    ELSE IF ~face_detected THEN <<"rejected", "No face detected">>
    ELSE IF ~liveness_passed THEN <<"rejected", "Liveness detection failed">>
    ELSE IF face_score < cfg.FACE_MODEL_THRESHOLD
        THEN <<"rejected", "Face match insufficient">>
    ELSE IF face_score >= 80
            /\ liveness_score >= cfg.LIVENESS_CONFIDENCE_THRESHOLD
            /\ doc_confidence >= 70
        THEN <<"verified", "All checks passed">>
    ELSE <<"pending", "">>

\* A plausible slip: the thresholds are the defaults, not the configured values.
aggregate_decision_defaults(doc_valid, doc_confidence, face_detected, face_score, liveness_passed, liveness_score, cfg) ==
    IF ~doc_valid THEN <<"rejected", "Invalid document">>
    ELSE IF ~face_detected THEN <<"rejected", "No face detected">>
    ELSE IF ~liveness_passed THEN <<"rejected", "Liveness detection failed">>
    ELSE IF face_score < 60
        THEN <<"rejected", "Face match insufficient">>
    ELSE IF face_score >= 80 /\ liveness_score >= 90 /\ doc_confidence >= 70
        THEN <<"verified", "All checks passed">>
    ELSE <<"manual_review", "Requires manual review">>

\* The if/elif chain of lines 236-254: <<decision, reason>>.
aggregate_decision(doc_valid, doc_confidence, face_detected, face_score, liveness_passed, liveness_score, cfg) ==
    IF ~doc_valid THEN <<"rejected", "Invalid document">>
    ELSE IF ~face_detected THEN <<"rejected", "No face detected">>
    ELSE IF ~liveness_passed THEN <<"rejected", "Liveness detection failed">>
    ELSE IF face_score < cfg.FACE_MODEL_THRESHOLD
        THEN <<"rejected", "Face match insufficient">>
    ELSE IF face_score >= 80
            /\ liveness_score >= cfg.LIVENESS_CONFIDENCE_THRESHOLD
            /\ doc_confidence >= 70
        THEN <<"verified", "All checks passed">>
    ELSE <<"manual_review", "Requires manual review">>

\* _aggregate_results(document_result, face_result, liveness_result), reading the
\* thresholds from the settings in force when it is called.
aggregate_results(document_result, face_result, liveness_result, cfg) ==
    LET doc_valid == Get(document_result, "document_valid", FALSE)
        doc_confidence == Get(document_result, "confidence", 0)
        face_detected == Get(face_result, "face_detected", FALSE)
        face_score == Get(face_result, "face_match_score", 0)
        liveness_passed == Get(liveness_result, "liveness_detected", FALSE)
        liveness_score == Get(liveness_result, "liveness_score", 0)
        d == aggregate_decision(doc_valid, doc_confidence, face_detected, face_score,
                                liveness_passed, liveness_score, cfg)
    IN  [status |-> "completed",
         document_valid |-> doc_valid,
         face_match_score |-> face_score,
         liveness_score |-> liveness_score,
         decision |-> d[1],
         decision_reason |-> d[2],
         processing_time |-> 25]

(***************************************************************************)
(* The decision step on its own: every combination of signals, under every *)
(* configuration, is handed to _aggregate_results, once and then again.    *)
(***************************************************************************)
DocConfidences == {0, 69, 70, 75, 90}
Similarities == {0, 59, 60, 75, 79, 80, 85, 100}
LivenessScores == {0, 89, 90, 92, 95}

DecideInputs ==
    [doc : [document_valid : BOOLEAN, confidence : DocConfidences],
     face : [face_detected : BOOLEAN, face_match_score : Similarities],
     liveness : [liveness_detected : BOOLEAN, liveness_score : LivenessScores]]

(***************************************************************************)
(* One verification attempt: the row of the verifications table, the       *)
(* upload request that creates it, the background task that processes it,  *)
(* manual review and retention cleanup.  Only the columns status, decision *)
(* and decision_reason of a row are kept.                                  *)
(***************************************************************************)
Attempts == 1 .. MaxAttempts

\* No call of the decision step, or of process_verification, has returned yet.
NoResult == [status |-> "none"]

\* A local that has not been assigned yet.
Unset == [unset |-> TRUE]

\* No row with this id.
NoRow == [status |-> "absent", decision |-> None, decision_reason |-> None]

\* What a session knows of a row after a rollback: every attribute is expired,
\* so every attribute assigned afterwards is written by the next flush.
Expired == [status |-> "?", decision |-> "?", decision_reason |-> "?"]

\* models.Verification(..., status="processing"): the row upload commits.
NewRow == [status |-> "processing", decision |-> None, decision_reason |-> None]

\* The UPDATE a commit flushes: the columns whose in-memory value differs from
\* the value the session loaded or last wrote; the others keep the table's value.
Flush(row, obj, snap) ==
    [status |-> IF obj.status # snap.status THEN obj.status ELSE row.status,
     decision |-> IF obj.decision # snap.decision THEN obj.decision ELSE row.decision,
     decision_reason |-> IF obj.decision_reason # snap.decision_reason
                         THEN obj.decision_reason ELSE row.decision_reason]

IdleTask == [pc |-> "idle", obj |-> NoRow, snap |-> NoRow, result |-> NoResult]

\* process_verification has not been called.
IdleCall ==
    [pc |-> "idle", files |-> {},
     document_result |-> Unset, doc_face_result |-> Unset,
     selfie_face_result |-> Unset, face_result |-> Unset,
     liveness_result |-> Unset, result |-> NoResult]

IdleReview == [pc |-> "idle", id |-> 0, obj |-> NoRow, snap |-> NoRow]

IdleRetention == [pc |-> "idle", rows |-> {}]

\* No extractor has been called.
IdleExtractor == [fn |-> "none", pc |-> "idle"]

PipeIdle ==
    /\ db = [a \in Attempts |-> NoRow]
    /\ up = [a \in Attempts |-> "idle"]
    /\ bg = [a \in Attempts |-> IdleTask]
    /\ rev = IdleReview
    /\ ret = IdleRetention

(***************************************************************************)
(* upload_verification_files                                               *)
(***************************************************************************)
\* db.add(verification); await db.commit()
upload_commit(a) ==
    /\ up[a] = "idle"
    /\ \A b \in Attempts : b < a => up[b] # "idle"
    /\ \/ /\ db' = [db EXCEPT ![a] = NewRow]
          /\ up' = [up EXCEPT ![a] = "refresh"]
       \/ /\ up' = [up EXCEPT ![a] = "error"]
          /\ UNCHANGED db
    /\ UNCHANGED <<settings, decideVars, pv, bg, rev, ret>>

\* await db.refresh(verification)
upload_refresh(a) ==
    /\ up[a] = "refresh"
    /\ \/ up' = [up EXCEPT ![a] = "audit"]
       \/ up' = [up EXCEPT ![a] = "error"]
    /\ UNCHANGED <<settings, decideVars, pv, db, bg, rev, ret>>

\* await audit_log_event("verification_created", ...), which logs and swallows
\* its own failure; then background_tasks.add_task(...) and the response.
upload_schedule(a) ==
    /\ up[a] = "audit"
    /\ bg' = [bg EXCEPT ![a].pc = "start"]
    /\ up' = [up EXCEPT ![a] = "done"]
    /\ UNCHANGED <<settings, decideVars, pv, db, rev, ret>>

(***************************************************************************)
(* VerificationService.process_verification, one action per await.         *)
(* A result dict keeps the keys the decision step and the caller read,     *)
(* and its "error" key: None, or the text of the exception caught.         *)
(***************************************************************************)
\* What document_service.process_document returns without failing: validity is
\* confidence >= 0.5 (0.23: one required field; 0.56: two and a well-formed
\* number; 0.79: all three and a well-formed number).
DocumentResults ==
    { [document_valid |-> FALSE, confidence |-> 23, error |-> None],
      [document_valid |-> TRUE, confidence |-> 56, error |-> None],
      [document_valid |-> TRUE, confidence |-> 79, error |-> None] }

\* The failure-safe document signal (process_document's and _process_document's
\* except clauses build the same values).
DocumentFailure == [document_valid |-> FALSE, confidence |-> 0, error |-> "exc"]

\* What extract_face_from_document / extract_face_from_selfie return: a face,
\* no face, or the failure-safe result of their except clause.
FaceFound == [face_detected |-> TRUE, confidence |-> 99, error |-> None]
FaceMissing == [face_detected |-> FALSE, confidence |-> 0, error |-> None]
FaceExtractorFailure == [face_detected |-> FALSE, confidence |-> 0, error |-> "exc"]
FaceResults == {FaceFound, FaceMissing, FaceExtractorFailure}

\* What compare_faces returns (0.0 also when it fails).
PipeSimilarities == {0, 70, 90}

\* What detect_liveness(path, "passive") returns without failing: passed is
\* score >= 0.6; score 0 is the insufficient-frames result and 0.88 the
\* highest score of the passive method.
LivenessResults ==
    { [liveness_detected |-> FALSE, liveness_score |-> 0, error |-> None],
      [liveness_detected |-> TRUE, liveness_score |-> 70, error |-> None],
      [liveness_detected |-> TRUE, liveness_score |-> 88, error |-> None] }

\* The failure-safe liveness signal (detect_liveness's and
\* _process_liveness_detection's except clauses).
LivenessFailure == [liveness_detected |-> FALSE, liveness_score |-> 0, error |-> "exc"]

\* _process_face_verification's except clause.
FaceFailure == [face_detected |-> FALSE, face_match_score |-> 0, error |-> "exc"]

\* _process_face_verification, lines 137-143: no face in the ID document.
no_document_face == [face_detected |-> FALSE, face_match_score |-> 0, error |-> "No face detected in ID document"]

\* _process_face_verification, lines 148-154: no face in the selfie; the result
\* still says face_detected, for the face of the ID document.
no_selfie_face == [face_detected |-> TRUE, face_match_score |-> 0, error |-> "No face detected in selfie"]

\* _process_face_verification, lines 169-175.
face_compared(similarity_score) == [face_detected |-> TRUE, face_match_score |-> similarity_score, error |-> None]

\* process_verification's except clause, lines 72-78.
FailedResult == [status |-> "failed", error |-> "exc", decision |-> "rejected"]

\* _save_uploaded_files: both files are written, or an exception leaves what
\* was written so far and process_verification returns its failed result.
save_uploaded_files ==
    /\ pv.pc = "save"
    /\ \/ pv' = [pv EXCEPT !.pc = "document", !.files = {"id", "selfie"}]
       \/ \E written \in {{}, {"id"}, {"id", "selfie"}} :
            pv' = [pv EXCEPT !.pc = "returned", !.files = written, !.result = FailedResult]
    /\ UNCHANGED <<settings, decideVars, pipeVars>>

\* _process_document
process_document ==
    /\ pv.pc = "document"
    /\ \E r \in DocumentResults \cup {DocumentFailure} :
          pv' = [pv EXCEPT !.pc = "doc_face", !.document_result = r]
    /\ UNCHANGED <<settings, decideVars, pipeVars>>

\* _process_face_verification, lines 133-143: the face of the ID document.
process_face_document ==
    /\ pv.pc = "doc_face"
    /\ \/ \E r \in FaceResults :
            pv' = [pv EXCEPT !.doc_face_result = r,
                             !.pc = IF r.face_detected THEN "selfie_face" ELSE "liveness",
                             !.face_result = IF r.face_detected THEN Unset ELSE no_document_face]
       \/ pv' = [pv EXCEPT !.pc = "liveness", !.face_result = FaceFailure]
    /\ UNCHANGED <<settings, decideVars, pipeVars>>

\* The selfie step going on to the comparison whatever it found.
process_face_selfie_unchecked ==
    /\ pv.pc = "selfie_face"
    /\ \/ \E r \in FaceResults :
            pv' = [pv EXCEPT !.selfie_face_result = r, !.pc = "compare"]
       \/ pv' = [pv EXCEPT !.pc = "liveness", !.face_result = FaceFailure]
    /\ UNCHANGED <<settings, decideVars, pipeVars>>

\* _process_face_verification, lines 145-154: the face of the selfie video.
process_face_selfie ==
    /\ pv.pc = "selfie_face"
    /\ \/ \E r \in FaceResults :
            pv' = [pv EXCEPT !.selfie_face_result = r,
                             !.pc = IF r.face_detected THEN "compare" ELSE "liveness",
                             !.face_result = IF r.face_detected THEN Unset ELSE no_selfie_face]
       \/ pv' = [pv EXCEPT !.pc = "liveness", !.face_result = FaceFailure]
    /\ UNCHANGED <<settings, decideVars, pipeVars>>

\* _process_face_verification, lines 156-175: compare the two embeddings.
process_face_compare ==
    /\ pv.pc = "compare"
    /\ \/ \E sim \in PipeSimilarities :
            pv' = [pv EXCEPT !.pc = "liveness", !.face_result = face_compared(sim)]
       \/ pv' = [pv EXCEPT !.pc = "liveness", !.face_result = FaceFailure]
    /\ UNCHANGED <<settings, decideVars, pipeVars>>

\* _process_liveness_detection
process_liveness_detection ==
    /\ pv.pc = "liveness"
    /\ \E r \in LivenessResults \cup {LivenessFailure} :
          pv' = [pv EXCEPT !.pc = "aggregate", !.liveness_result = r]
    /\ UNCHANGED <<settings, decideVars, pipeVars>>

\* final_result = await self._aggregate_results(...); return final_result
process_aggregate ==
    /\ pv.pc = "aggregate"
    /\ pv' = [pv EXCEPT !.pc = "returned",
                        !.result = aggregate_results(pv.document_result, pv.face_result, pv.liveness_result, settings)]
    /\ UNCHANGED <<settings, decideVars, pipeVars>>

\* One call of process_verification, from the saving of the files to its return.
InitProcess ==
    /\ settings \in Settings
    /\ dIn = Unset
    /\ dOut = NoResult
    /\ dPrev = NoResult
    /\ PipeIdle
    /\ pv = [IdleCall EXCEPT !.pc = "save"]
    /\ ex = IdleExtractor

NextProcess ==
    \/ save_uploaded_files
    \/ process_document
    \/ process_face_document
    \/ process_face_selfie
    \/ process_face_compare
    \/ process_liveness_detection
    \/ process_aggregate

SpecProcess == InitProcess /\ [][NextProcess]_vars

\* What _process_face_verification can return.
FaceVerificationResults ==
    {no_document_face, no_selfie_face, FaceFailure} \cup {face_compared(sim) : sim \in PipeSimilarities}

\* What a whole call of process_verification can return, and the files it
\* leaves on disk, under the configuration cfg.
process_verification(cfg) ==
    {[result |-> FailedResult, files |-> written] : written \in {{}, {"id"}, {"id", "selfie"}}}
    \cup
    {[result |-> aggregate_results(d, f, l, cfg), files |-> {"id", "selfie"}] :
        d \in DocumentResults \cup {DocumentFailure},
        f \in FaceVerificationResults,
        l \in LivenessResults \cup {LivenessFailure}}

Task(a) == bg[a]

(***************************************************************************)
(* process_verification_background, one action per await.                  *)
(***************************************************************************)
\* Lines 32-33: db = get_db(); async with db as session.  get_db is written as
\* an async generator for Depends; entered by hand the statement either yields
\* the session or raises, and it stands outside the try block, so a raise ends
\* the task there and no handler runs.
background_acquire(a) ==
    /\ Task(a).pc = "start"
    /\ \/ bg' = [bg EXCEPT ![a].pc = "lookup"]
       \/ bg' = [bg EXCEPT ![a].pc = "crashed"]
    /\ UNCHANGED <<settings, decideVars, pv, db, up, rev, ret>>

\* Lines 36-45: load the row and set status = "processing" in memory.  If the
\* query raises, the handler finds no `verification` to update and gives up.
background_lookup(a) ==
    /\ Task(a).pc = "lookup"
    /\ \/ IF db[a].status = "absent"
          THEN bg' = [bg EXCEPT ![a].pc = "done"]
          ELSE bg' = [bg EXCEPT ![a].pc = "mark", ![a].snap = db[a],
                                ![a].obj = [db[a] EXCEPT !.status = "processing"]]
       \/ bg' = [bg EXCEPT ![a].pc = "done"]
    /\ UNCHANGED <<settings, decideVars, pv, db, up, rev, ret>>

\* Line 46: await session.commit()
background_mark(a) ==
    /\ Task(a).pc = "mark"
    /\ \/ /\ db' = [db EXCEPT ![a] = Flush(db[a], Task(a).obj, Task(a).snap)]
          /\ bg' = [bg EXCEPT ![a].pc = "process", ![a].snap = Task(a).obj]
       \/ /\ bg' = [bg EXCEPT ![a].pc = "handler", ![a].snap = Expired]
          /\ UNCHANGED db
    /\ UNCHANGED <<settings, decideVars, pv, up, rev, ret>>

\* Lines 48-53: await verification_service.process_verification(...)
background_process(a) ==
    /\ Task(a).pc = "process"
    /\ \E call \in process_verification(settings) :
          bg' = [bg EXCEPT ![a].pc = "update", ![a].result = call.result]
    /\ UNCHANGED <<settings, decideVars, pv, db, up, rev, ret>>

\* Lines 56-62: copy the result into the record.
update_record(obj, result) ==
    [status |-> IF Get(result, "status", None) = "completed" THEN "completed" ELSE "failed",
     decision |-> Get(result, "decision", "rejected"),
     decision_reason |-> Get(result, "decision_reason", "")]

\* Lines 55-68: update the record from the result and commit.
background_update(a) ==
    /\ Task(a).pc = "update"
    /\ LET obj == update_record(Task(a).obj, Task(a).result)
           cleared == [IdleTask EXCEPT !.obj = obj]
       IN  \/ /\ db' = [db EXCEPT ![a] = Flush(db[a], obj, Task(a).snap)]
              /\ bg' = [bg EXCEPT ![a] = [cleared EXCEPT !.pc = "audit", !.snap = obj]]
           \/ /\ bg' = [bg EXCEPT ![a] = [cleared EXCEPT !.pc = "handler", !.snap = Expired]]
              /\ UNCHANGED db
    /\ UNCHANGED <<settings, decideVars, pv, up, rev, ret>>

\* Lines 70-83: add the AuditLog row and commit, inside the same try block.
background_audit(a) ==
    /\ Task(a).pc = "audit"
    /\ \/ bg' = [bg EXCEPT ![a] = [IdleTask EXCEPT !.pc = "done"]]
       \/ bg' = [bg EXCEPT ![a].pc = "handler", ![a].snap = Expired]
    /\ UNCHANGED <<settings, decideVars, pv, db, up, rev, ret>>

\* The except clause setting the status alone ("?": not assigned).
error_record_status_only == [status |-> "failed", decision |-> "?", decision_reason |-> "?"]

\* Lines 88-90: what the except clause writes into the record.
error_record == [status |-> "failed", decision |-> "rejected", decision_reason |-> "Processing error: exc"]

\* Lines 85-93: the except clause; a failure of its own commit is swallowed.
background_handler(a) ==
    /\ Task(a).pc = "handler"
    /\ \/ db' = [db EXCEPT ![a] = Flush(db[a], error_record, Task(a).snap)]
       \/ UNCHANGED db
    /\ bg' = [bg EXCEPT ![a] = [IdleTask EXCEPT !.pc = "done"]]
    /\ UNCHANGED <<settings, decideVars, pv, up, rev, ret>>

(***************************************************************************)
(* manual_review_verification                                              *)
(***************************************************************************)
\* review_in: the fields of VerificationUpdate the reviewer sets.
ReviewInputs ==
    { [decision |-> "verified", decision_reason |-> "Approved by reviewer"] }

\* for field, value in update_data.items(): setattr(verification, field, value)
apply_review(row, update_data) ==
    [status |-> Get(update_data, "status", row.status),
     decision |-> Get(update_data, "decision", row.decision),
     decision_reason |-> Get(update_data, "decision_reason", row.decision_reason)]

\* Lines 205-219: load the row by session id and set the reviewed fields in
\* memory (an unknown session id is answered 404 and changes nothing).
manual_review_lookup(a, review_in) ==
    /\ rev.pc = "idle"
    /\ db[a].status # "absent"
    /\ rev' = [pc |-> "commit", id |-> a, obj |-> apply_review(db[a], review_in), snap |-> db[a]]
    /\ UNCHANGED <<settings, decideVars, pv, db, up, bg, ret>>

\* Lines 219-222: the reviewer id is read from the resolved dependency and the
\* request is committed; a raise in either rolls the request back.
manual_review_commit ==
    /\ rev.pc = "commit"
    /\ \/ db' = [db EXCEPT ![rev.id] = Flush(db[rev.id], rev.obj, rev.snap)]
       \/ UNCHANGED db
    /\ rev' = IdleReview
    /\ UNCHANGED <<settings, decideVars, pv, up, bg, ret>>

(***************************************************************************)
(* SecurityService.check_data_retention_policy                             *)
(***************************************************************************)
\* Lines 159-176: select the rows older than the cutoff whose status is
\* "completed" or "rejected" (which rows are that old is the clock's choice) and
\* set their status to "deleted" in memory.
retention_select ==
    /\ ret.pc = "idle"
    /\ \E rows \in SUBSET {a \in Attempts : db[a].status \in {"completed", "rejected"}} :
          /\ rows # {}
          /\ ret' = [pc |-> "commit", rows |-> rows]
    /\ UNCHANGED <<settings, decideVars, pv, db, up, bg, rev>>

\* Lines 180-187: one audit event per row (a failure of which is swallowed), then
\* the commit of the status changes; a failed commit is reported and changes
\* nothing.
retention_commit ==
    /\ ret.pc = "commit"
    /\ \/ db' = [a \in Attempts |-> IF a \in ret.rows THEN [db[a] EXCEPT !.status = "deleted"] ELSE db[a]]
       \/ UNCHANGED db
    /\ ret' = IdleRetention
    /\ UNCHANGED <<settings, decideVars, pv, up, bg, rev>>

(***************************************************************************)
(* The platform: uploads, background tasks, reviews and retention runs,    *)
(* interleaved at their awaits.                                            *)
(***************************************************************************)
Init ==
    /\ settings = DefaultSettings
    /\ dIn = Unset
    /\ dOut = NoResult
    /\ dPrev = NoResult
    /\ PipeIdle
    /\ pv = IdleCall
    /\ ex = IdleExtractor

Next ==
    \/ \E a \in Attempts : upload_commit(a)
    \/ \E a \in Attempts : upload_refresh(a)
    \/ \E a \in Attempts : upload_schedule(a)
    \/ \E a \in Attempts : background_acquire(a)
    \/ \E a \in Attempts : background_lookup(a)
    \/ \E a \in Attempts : background_mark(a)
    \/ \E a \in Attempts : background_process(a)
    \/ \E a \in Attempts : background_update(a)
    \/ \E a \in Attempts : background_audit(a)
    \/ \E a \in Attempts : background_handler(a)
    \/ \E a \in Attempts, review_in \in ReviewInputs : manual_review_lookup(a, review_in)
    \/ manual_review_commit
    \/ retention_select
    \/ retention_commit

Spec == Init /\ [][Next]_vars

\* The pipeline alone: uploads and their background tasks, without review
\* requests and retention runs.
NextPipeline ==
    \/ \E a \in Attempts : upload_commit(a)
    \/ \E a \in Attempts : upload_refresh(a)
    \/ \E a \in Attempts : upload_schedule(a)
    \/ \E a \in Attempts : background_acquire(a)
    \/ \E a \in Attempts : background_lookup(a)
    \/ \E a \in Attempts : background_mark(a)
    \/ \E a \in Attempts : background_process(a)
    \/ \E a \in Attempts : background_update(a)
    \/ \E a \in Attempts : background_audit(a)
    \/ \E a \in Attempts : background_handler(a)

\* Init with the thresholds of any configuration.
InitPipeline ==
    /\ settings \in Settings
    /\ dIn = Unset
    /\ dOut = NoResult
    /\ dPrev = NoResult
    /\ PipeIdle
    /\ pv = IdleCall
    /\ ex = IdleExtractor

SpecPipeline == InitPipeline /\ [][NextPipeline]_vars

InitDecide ==
    /\ settings \in Settings
    /\ dIn \in DecideInputs
    /\ dOut = NoResult
    /\ dPrev = NoResult
    /\ PipeIdle
    /\ pv = IdleCall
    /\ ex = IdleExtractor

\* One call of _aggregate_results on the frozen inputs.
Decide ==
    /\ dOut = NoResult
    /\ dOut' = aggregate_results(dIn.doc, dIn.face, dIn.liveness, settings)
    /\ UNCHANGED <<settings, dIn, dPrev, pipeVars, pv, ex>>

\* A second call on the same inputs; the first call's result is kept aside.
DecideAgain ==
    /\ dOut # NoResult
    /\ dPrev = NoResult
    /\ dPrev' = dOut
    /\ dOut' = aggregate_results(dIn.doc, dIn.face, dIn.liveness, settings)
    /\ UNCHANGED <<settings, dIn, pipeVars, pv, ex>>

NextDecide == Decide \/ DecideAgain

SpecDecide == InitDecide /\ [][NextDecide]_vars

\* Shorthands for the signals of the call and the thresholds in force.
Decided == dOut # NoResult
SigValid == dIn.doc.document_valid
SigDocConf == dIn.doc.confidence
SigFace == dIn.face.face_detected
SigSim == dIn.face.face_match_score
SigLive == dIn.liveness.liveness_detected
SigLiveScore == dIn.liveness.liveness_score
FaceMatch == settings.FACE_MODEL_THRESHOLD
LivenessConfidence == settings.LIVENESS_CONFIDENCE_THRESHOLD
Outcome == <<dOut.decision, dOut.decision_reason>>

\* C1: the decision step returns the outcome of the first check that fires, in
\* the order document, face detected, liveness passed, similarity < faceMatch;
\* an invalid document always gives "Invalid document", and a similarity equal
\* to faceMatch is not rejected by the fourth check.
C1_FirstFailingCheckWins ==
    Decided =>
        /\ ~SigValid => Outcome = <<"rejected", "Invalid document">>
        /\ SigValid /\ ~SigFace => Outcome = <<"rejected", "No face detected">>
        /\ SigValid /\ SigFace /\ ~SigLive
            => Outcome = <<"rejected", "Liveness detection failed">>
        /\ SigValid /\ SigFace /\ SigLive /\ SigSim < FaceMatch
            => Outcome = <<"rejected", "Face match insufficient">>
        /\ SigValid /\ SigFace /\ SigLive /\ SigSim >= FaceMatch
            => dOut.decision # "rejected"

C1_Witness ==
    /\ Decided
    /\ SigValid /\ SigFace /\ SigLive
    /\ SigSim = FaceMatch /\ FaceMatch = 60
    /\ dOut.decision = "manual_review"

FastPath ==
    /\ SigValid /\ SigFace /\ SigLive /\ SigSim >= FaceMatch
    /\ SigSim >= 80
    /\ SigLiveScore >= LivenessConfidence
    /\ SigDocConf >= 70

\* C2: the outcome is verified, "All checks passed", exactly when no rejection
\* check fires and similarity >= 0.8, liveness score >= livenessConfidence and
\* document confidence >= 0.7, all bounds inclusive.
C2_VerifiedExactlyOnFastPath ==
    Decided =>
        /\ dOut.decision = "verified" <=> FastPath
        /\ dOut.decision = "verified" <=> dOut.decision_reason = "All checks passed"

C2_Witness ==
    /\ Decided
    /\ SigValid /\ SigFace /\ SigLive
    /\ SigSim = 80 /\ SigDocConf = 70
    /\ SigLiveScore = LivenessConfidence /\ LivenessConfidence = 90
    /\ Outcome = <<"verified", "All checks passed">>

\* C3: with a valid document, a detected face, liveness passed and similarity
\* >= faceMatch, failing any of the three fast-path bounds gives manual_review,
\* "Requires manual review".
C3_ManualReviewOtherwise ==
    Decided /\ SigValid /\ SigFace /\ SigLive /\ SigSim >= FaceMatch /\ ~FastPath
        => Outcome = <<"manual_review", "Requires manual review">>

C3_Witness ==
    /\ Decided
    /\ SigValid /\ SigFace /\ SigLive
    /\ SigSim = 75 /\ SigDocConf = 90 /\ SigLiveScore = 95
    /\ settings = DefaultSettings
    /\ Outcome = <<"manual_review", "Requires manual review">>

DecisionTable ==
    { <<"rejected", "Invalid document">>,
      <<"rejected", "No face detected">>,
      <<"rejected", "Liveness detection failed">>,
      <<"rejected", "Face match insufficient">>,
      <<"verified", "All checks passed">>,
      <<"manual_review", "Requires manual review">> }

C5_NoFixedThreshold ==
    Decided /\ SigValid /\ SigFace /\ SigLive
            /\ SigSim >= FaceMatch /\ SigLiveScore >= LivenessConfidence
        => dOut.decision = "verified"

\* C5 amended: the face-match check and the liveness bound of the fast path use
\* the configured faceMatch and livenessConfidence; the fast path also asks for
\* similarity >= 0.8 and document confidence >= 0.7, which are fixed.
C5_ThresholdsFromSettings ==
    Decided /\ SigValid /\ SigFace /\ SigLive =>
        /\ dOut.decision_reason = "Face match insufficient" <=> SigSim < FaceMatch
        /\ dOut.decision = "verified"
            <=> /\ SigSim >= FaceMatch
                /\ SigLiveScore >= LivenessConfidence
                /\ SigSim >= 80
                /\ SigDocConf >= 70

C5_Witness ==
    /\ Decided
    /\ SigValid /\ SigFace /\ SigLive
    /\ FaceMatch = 80 /\ LivenessConfidence = 95
    /\ SigSim = 79 /\ SigLiveScore = 95
    /\ dOut.decision_reason = "Face match insufficient"

(***************************************************************************)
(* The status of an attempt's row.                                         *)
(***************************************************************************)
Outcomes == {"verified", "rejected", "manual_review"}

StatusTransitions ==
    { <<"absent", "created">>, <<"created", "processing">>,
      <<"processing", "completed">>, <<"processing", "failed">> }

\* C6: the status of an attempt starts in created and only moves created ->
\* processing, processing -> completed and processing -> failed; it takes no
\* other value.
C6_StatusStateMachine ==
    [][\A a \in Attempts :
          db'[a].status # db[a].status => <<db[a].status, db'[a].status>> \in StatusTransitions]_vars

\* C7: once an attempt's status is committed as completed or failed, no later
\* step (audit, error handler, manual review, retention cleanup) changes its
\* status, decision or decision reason.
C7_TerminalNeverRewritten ==
    [][\A a \in Attempts : db[a].status \in {"completed", "failed"} => db'[a] = db[a]]_vars

\* C8: a completed attempt carries a Decision (an outcome and a non-empty
\* reason) and a failed attempt carries a non-empty error detail.
C8_TerminalCarriesOutcome ==
    \A a \in Attempts :
        /\ db[a].status = "completed"
            => db[a].decision \in Outcomes /\ db[a].decision_reason \notin {None, ""}
        /\ db[a].status = "failed" => db[a].decision_reason \notin {None, ""}

\* C9: no execution leaves an attempt in processing: when the background task
\* of an attempt has ended, whatever faults it met, the attempt is no longer
\* in processing.
C9_NeverLeftProcessing ==
    \A a \in Attempts : Task(a).pc \in {"done", "crashed"} => db[a].status # "processing"

(***************************************************************************)
(* One call of process_verification.                                       *)
(***************************************************************************)
Returned == pv.pc = "returned"

\* The extractors whose own except clause, or whose wrapper's, caught an
\* exception during the call.
FailedExtractors ==
    {e \in {"document_result", "doc_face_result", "selfie_face_result", "face_result", "liveness_result"} :
        Get(pv[e], "error", None) = "exc"}

\* C10: a failure inside an extractor does not abort the attempt:
\* process_verification returns status completed with a rejected Decision.
C10_ExtractorFailureRejects ==
    Returned /\ FailedExtractors # {}
        => pv.result.status = "completed" /\ pv.result.decision = "rejected"

(***************************************************************************)
(* Faults outside the extractors and failures of the audit sink.           *)
(***************************************************************************)
\* The decision reason the specification prescribes for a fault whose detail
\* is "exc".
ProcessingErrorReason == "processing_error: exc"

\* C11: whenever a step makes an attempt failed (a fault outside the
\* extractors), the row it commits has decision rejected and the decision
\* reason 'processing_error: <detail>' carrying the fault's detail.
C11_FaultGivesProcessingError ==
    [][\A a \in Attempts :
          db'[a].status = "failed" /\ db[a].status # "failed"
              => db'[a].decision = "rejected" /\ db'[a].decision_reason = ProcessingErrorReason]_vars

\* The audit commit of attempt a raised after the result was committed: the
\* task is in its except clause and the row is already completed or failed
\* (a raise of an earlier commit leaves the row in processing).
AuditFailed(a) == Task(a).pc = "handler" /\ db[a].status \in {"completed", "failed"}

\* C12: a failure of the audit sink never fails the attempt: the step the task
\* takes after its audit commit raised leaves the row's status, decision and
\* decision reason as the result commit wrote them.
C12_AuditFailureChangesNothing ==
    [][\A a \in Attempts : AuditFailed(a) /\ Task(a)' # Task(a) => db'[a] = db[a]]_vars

(***************************************************************************)
(* The uploaded media of one call.                                         *)
(***************************************************************************)
\* C13: the uploaded media are a scoped resource: whenever process_verification
\* has returned, on any exit path, none of the temporary files it saved for
\* the attempt is left on disk.
C13_FilesReleased == Returned => pv.files = {}

(***************************************************************************)
(* Writers of one attempt's row.                                           *)
(***************************************************************************)
\* The background task of attempt a commits a change of the row in this step,
\* from a session that still holds what it read or last wrote.
TaskWrites(a) == Task(a)' # Task(a) /\ db'[a] # db[a] /\ Task(a).snap # Expired

\* The review request in flight commits a change of the row of attempt a.
ReviewWrites(a) == rev' # rev /\ rev.pc = "commit" /\ rev.id = a /\ db'[a] # db[a]

\* C14: updates of one attempt's row are serialized: a writer that commits a
\* change finds the row as it read it, so it never overwrites an update that
\* another writer committed after that read.
C14_WritersSerialized ==
    [][\A a \in Attempts :
          /\ TaskWrites(a) => Task(a).snap = db[a]
          /\ ReviewWrites(a) => rev.snap = db[a]]_vars

(***************************************************************************)
(* DocumentService (document_service.py).  Scores are in units of 1/Unit.  *)
(***************************************************************************)
\* The float 1.0.
Unit == 30000

\* score * (num / den) for the float literals of the services (0.7 is 7/10).
Times(score, num, den) == (score * num) \div den

Letters == {"P", "A", "X"}
Digits == {"0", "1", "2", "3", "4", "5", "6", "7", "8", "9"}

\* The text _extract_text_with_ocr returns: a placeholder, the same for every
\* image.  Each line is its label and the words (for the passport number the
\* characters) after the colon.
OcrText ==
    << [label |-> "TYPE", value |-> <<"P">>],
       [label |-> "CODE", value |-> <<"USA">>],
       [label |-> "PASSPORT NO", value |-> <<"P", "1", "2", "3", "4", "5", "6", "7", "8", "9">>],
       [label |-> "SURNAME", value |-> <<"DOE">>],
       [label |-> "GIVEN NAMES", value |-> <<"JOHN", "MICHAEL">>],
       [label |-> "NATIONALITY", value |-> <<"UNITED", "STATES", "OF", "AMERICA">>],
       [label |-> "DATE OF BIRTH", value |-> <<"15", "JAN", "1990">>],
       [label |-> "SEX", value |-> <<"M">>],
       [label |-> "PLACE OF BIRTH", value |-> <<"NEW", "YORK">>],
       [label |-> "DATE OF ISSUE", value |-> <<"01", "JAN", "2020">>],
       [label |-> "DATE OF EXPIRATION", value |-> <<"01", "JAN", "2030">>],
       [label |-> "AUTHORITY", value |-> <<"DEPARTMENT", "OF", "STATE">>],
       [label |-> "ENDORSEMENTS", value |-> <<"NONE">>] >>

\* re.search(r'([A-Z]\d{8})', line): the first letter followed by 8 digits.
search_passport_number(chars) ==
    LET hits == {i \in 1 .. Len(chars) - 8 :
                    chars[i] \in Letters /\ \A j \in i + 1 .. i + 8 : chars[j] \in Digits}
    IN  IF hits = {} THEN None
        ELSE LET i == CHOOSE h \in hits : \A g \in hits : h <= g IN SubSeq(chars, i, i + 8)

\* re.search(r'(\d{1,2}\s+[A-Z]{3}\s+\d{4})', line)
search_date(words) == IF Len(words) = 3 THEN words ELSE None

\* data[key] = value
SetField(data, key, value) == (key :> value) @@ data

\* _parse_passport_data, lines 173-203: the if/elif chain applied to one line.
passport_line(data, line) ==
    IF line.label \in {"PASSPORT NO", "PASS NO"}
    THEN IF search_passport_number(line.value) # None
         THEN SetField(data, "passport_number", search_passport_number(line.value)) ELSE data
    ELSE IF line.label = "SURNAME" THEN SetField(data, "surname", line.value)
    ELSE IF line.label = "GIVEN NAMES" THEN SetField(data, "given_names", line.value)
    ELSE IF line.label \in {"DATE OF BIRTH", "DOB"}
    THEN IF search_date(line.value) # None THEN SetField(data, "date_of_birth", line.value) ELSE data
    ELSE IF line.label \in {"DATE OF EXPIRATION", "EXP"}
    THEN IF search_date(line.value) # None THEN SetField(data, "expiration_date", line.value) ELSE data
    ELSE data

\* _parse_id_card_data, lines 217-233: the three searches applied to one line.
\* No line of the text contains "ID"; NAME is found in SURNAME and in GIVEN
\* NAMES (where the group starts at the S after NAME), BIRTH in two labels.
id_card_line(data, line) ==
    LET named == IF line.label = "SURNAME" THEN SetField(data, "full_name", line.value)
                 ELSE IF line.label = "GIVEN NAMES" THEN SetField(data, "full_name", <<"S:">> \o line.value)
                 ELSE data
    IN  IF line.label \in {"DATE OF BIRTH", "PLACE OF BIRTH", "DOB"}
        THEN SetField(named, "date_of_birth", line.value) ELSE named

RECURSIVE parse_lines(_, _, _)
parse_lines(data, text, doc_type) ==
    IF text = <<>> THEN data
    ELSE parse_lines(IF doc_type = "passport" THEN passport_line(data, Head(text))
                     ELSE id_card_line(data, Head(text)),
                     Tail(text), doc_type)

\* Lines 205-207: combine the names.
parse_passport_data(text) ==
    LET data == parse_lines(<<>>, text, "passport")
    IN  IF "surname" \in DOMAIN data /\ "given_names" \in DOMAIN data
        THEN SetField(data, "full_name", data["given_names"] \o data["surname"]) ELSE data

parse_id_card_data(text) == parse_lines(<<>>, text, "national_id")

\* _parse_document_data
parse_document_data(text, doc_type) ==
    IF doc_type = "passport" THEN parse_passport_data(text)
    ELSE IF doc_type \in {"national_id", "drivers_license"} THEN parse_id_card_data(text)
    ELSE <<>>

\* _detect_document_type: the aspect ratio width / height against the bands.
detect_document_type(width, height) ==
    IF 14 * height <= 10 * width /\ 10 * width <= 17 * height THEN "passport"
    ELSE IF 6 * height <= 10 * width /\ 10 * width <= 8 * height THEN "national_id"
    ELSE IF 15 * height <= 10 * width /\ 10 * width <= 18 * height THEN "drivers_license"
    ELSE "unknown"

required_fields(doc_type) ==
    IF doc_type = "passport" THEN {"passport_number", "full_name", "date_of_birth"}
    ELSE IF doc_type \in {"national_id", "drivers_license"} THEN {"id_number", "full_name", "date_of_birth"}
    ELSE {}

\* re.match(r'^[A-Z]\d{8}$', data['passport_number'])
match_passport_number(chars) ==
    Len(chars) = 9 /\ chars[1] \in Letters /\ \A j \in 2 .. 9 : chars[j] \in Digits

\* The format score added to the confidence without its weight.
validate_document_data_unweighted(data, doc_type) ==
    LET required == required_fields(doc_type)
        present_fields == Cardinality({f \in required : f \in DOMAIN data /\ data[f] # <<>>})
        field_completeness == IF required # {} THEN (present_fields * Unit) \div Cardinality(required) ELSE 0
        passport_format == IF "passport_number" \in DOMAIN data /\ match_passport_number(data["passport_number"])
                           THEN Times(Unit, 3, 10) ELSE 0
        id_format == IF "id_number" \in DOMAIN data /\ Len(data["id_number"]) >= 6
                     THEN Times(Unit, 3, 10) ELSE 0
        format_score == passport_format + id_format
        confidence == Times(field_completeness, 7, 10) + format_score
    IN  <<confidence >= Times(Unit, 5, 10), confidence>>

\* _validate_document_data: <<is_valid, confidence>>
validate_document_data(data, doc_type) ==
    LET required == required_fields(doc_type)
        present_fields == Cardinality({f \in required : f \in DOMAIN data /\ data[f] # <<>>})
        field_completeness == IF required # {} THEN (present_fields * Unit) \div Cardinality(required) ELSE 0
        passport_format == IF "passport_number" \in DOMAIN data /\ match_passport_number(data["passport_number"])
                           THEN Times(Unit, 3, 10) ELSE 0
        id_format == IF "id_number" \in DOMAIN data /\ Len(data["id_number"]) >= 6
                     THEN Times(Unit, 3, 10) ELSE 0
        format_score == passport_format + id_format
        confidence == Times(field_completeness, 7, 10) + Times(format_score, 3, 10)
    IN  <<confidence >= Times(Unit, 5, 10), confidence>>

\* The except clause of process_document.
document_failure_lenient ==
    [document_type |-> "unknown", document_valid |-> FALSE, confidence |-> Times(Unit, 5, 10), extracted_data |-> <<>>, error |-> "exc"]

document_failure ==
    [document_type |-> "unknown", document_valid |-> FALSE, confidence |-> 0, extracted_data |-> <<>>, error |-> "exc"]

\* The images handed to process_document: cv2.imread returns None for an
\* unreadable file; a corrupt image is read but makes a cv2 call of the
\* preprocessing raise.
ImageWidths == {50, 59, 60, 70, 80, 81, 100, 139, 140, 149, 150, 160, 170, 171, 180, 181, 200}
ImageHeights == {100, 200}
DocumentImages ==
    [readable : BOOLEAN, corrupt : BOOLEAN, width : ImageWidths, height : ImageHeights]

\* DocumentService.process_document: what the call returns for an image.
document_service_process_document(image) ==
    IF ~image.readable \/ image.corrupt THEN document_failure
    ELSE LET doc_type == detect_document_type(image.width, image.height)
             parsed_data == parse_document_data(OcrText, doc_type)
             checked == validate_document_data(parsed_data, doc_type)
         IN  [document_type |-> doc_type, document_valid |-> checked[1],
              confidence |-> checked[2], extracted_data |-> parsed_data]

\* Parsed data handed to _validate_document_data: any of the four fields may
\* be missing, empty or filled; the numbers well-formed or not.
DocumentFields == {"passport_number", "id_number", "full_name", "date_of_birth"}
FieldValues ==
    [passport_number : {<<>>, <<"P", "1", "2", "3", "4", "5", "6", "7", "8">>, <<"P", "1", "2", "3", "4", "5", "6", "7", "8", "9">>},
     id_number : {<<>>, <<"1", "2", "3", "4", "5">>, <<"1", "2", "3", "4", "5", "6">>},
     full_name : {<<>>, <<"JOHN", "MICHAEL">>},
     date_of_birth : {<<>>, <<"15", "JAN", "1990">>}]
ParsedDocuments == {[f \in D |-> c[f]] : D \in SUBSET DocumentFields, c \in FieldValues}
DocumentTypes == {"passport", "national_id", "drivers_license", "unknown"}

\* One call of _validate_document_data.
validate_call(data, doc_type) ==
    /\ ex.pc = "idle"
    /\ ex' = [fn |-> "validate", pc |-> "returned", input |-> [data |-> data, doc_type |-> doc_type],
              result |-> [is_valid |-> validate_document_data(data, doc_type)[1],
                          confidence |-> validate_document_data(data, doc_type)[2]]]
    /\ UNCHANGED <<settings, dIn, dOut, dPrev, pipeVars, pv>>

\* One call of process_document, from its entry to its return.
document_call(image) ==
    /\ ex.pc = "idle"
    /\ ex' = [fn |-> "document", pc |-> "returned", input |-> image,
              result |-> document_service_process_document(image)]
    /\ UNCHANGED <<settings, dIn, dOut, dPrev, pipeVars, pv>>

(***************************************************************************)
(* FaceService (face_service.py).                                          *)
(***************************************************************************)
\* Longest explicit frame sequence of a video of the model.
MaxVideoFrames == 4

\* max_frames of extract_face_from_selfie.
SelfieMaxFrames == 30

\* What one image or video frame holds for the detector: no face, a face
\* (with the probability MTCNN gives it and the embedding computed from it),
\* content that makes the detector raise, or data cv2.cvtColor cannot convert.
NoFaceFrame == [face |-> "none", prob |-> 0, embedding |-> <<>>]
FaceFrames ==
    { [face |-> "found", prob |-> Times(Unit, 90, 100), embedding |-> <<1, 0>>],
      [face |-> "found", prob |-> Times(Unit, 99, 100), embedding |-> <<3, 4>>] }
Frames ==
    {NoFaceFrame} \cup FaceFrames
        \cup { [face |-> "raises", prob |-> 0, embedding |-> <<>>],
               [face |-> "corrupt", prob |-> 0, embedding |-> <<>>] }

\* FACENET_AVAILABLE and self.mtcnn and self.resnet, or the OpenCV fallback.
Backends == {"facenet", "opencv"}

\* embedding None: no embedding (like the empty list, it is falsy).
NoEmbedding == <<>>

\* The result of the detectors when they find no face.
no_face_detected_kept == [face_detected |-> TRUE, confidence |-> 0, embedding |-> NoEmbedding]

no_face_detected == [face_detected |-> FALSE, confidence |-> 0, embedding |-> NoEmbedding]

\* The except clauses: the same result with an error note.
face_extraction_failed == [face_detected |-> FALSE, confidence |-> 0, embedding |-> NoEmbedding, error |-> "exc"]

\* _extract_with_facenet / _extract_with_opencv on one RGB image.
extract_face(frame, backend) ==
    IF frame.face = "none" THEN no_face_detected
    ELSE IF frame.face = "found"
    THEN [face_detected |-> TRUE,
          confidence |-> IF backend = "facenet" THEN frame.prob ELSE Times(Unit, 5, 10),
          embedding |-> frame.embedding]
    ELSE face_extraction_failed

\* extract_face_from_document
DocumentFaceImages == [readable : BOOLEAN, frame : Frames, backend : Backends]

extract_face_from_document(image) ==
    IF ~image.readable \/ image.frame.face = "corrupt" THEN face_extraction_failed
    ELSE extract_face(image.frame, image.backend)

document_face_call(image) ==
    /\ ex.pc = "idle"
    /\ ex' = [fn |-> "document_face", pc |-> "returned", input |-> image,
              result |-> extract_face_from_document(image)]
    /\ UNCHANGED <<settings, dIn, dOut, dPrev, pipeVars, pv>>

\* A video: whether cv2.VideoCapture opens it, its frames, and whether reads
\* keep succeeding after the last of them (a stream that repeats it).
RECURSIVE SeqsUpTo(_, _)
SeqsUpTo(S, n) ==
    IF n = 0 THEN {<<>>}
    ELSE LET shorter == SeqsUpTo(S, n - 1)
         IN  shorter \cup {Append(q, x) : q \in {r \in shorter : Len(r) = n - 1}, x \in S}

SelfieVideos ==
    [opened : BOOLEAN, frames : SeqsUpTo(Frames, MaxVideoFrames), endless : BOOLEAN, backend : Backends]

\* ret, frame = cap.read() for the read number n (from 0).
ReadOk(video, n) == n < Len(video.frames) \/ (video.endless /\ video.frames # <<>>)
FrameAt(video, n) == IF n < Len(video.frames) THEN video.frames[n + 1] ELSE video.frames[Len(video.frames)]

\* The first face found, whatever its confidence.
first_found(confidences) == 1

\* np.argmax(confidences): the first index of the largest value.
argmax(confidences) ==
    CHOOSE i \in 1 .. Len(confidences) :
        /\ \A j \in 1 .. Len(confidences) : confidences[j] <= confidences[i]
        /\ \A j \in 1 .. i - 1 : confidences[j] < confidences[i]

\* Lines 139-157: after the loop.
selfie_result(embeddings, confidences) ==
    IF embeddings = <<>>
    THEN [face_detected |-> FALSE, confidence |-> 0, embedding |-> NoEmbedding, error |-> "No faces detected in video"]
    ELSE [face_detected |-> TRUE, confidence |-> confidences[argmax(confidences)],
          embedding |-> embeddings[argmax(confidences)], frame_count |-> Len(embeddings)]

\* extract_face_from_selfie, lines 103-115: open the video.
selfie_open(video) ==
    /\ ex.pc = "idle"
    /\ ex' = IF video.opened
             THEN [fn |-> "selfie_face", pc |-> "loop", input |-> video, frame_count |-> 0,
                   embeddings |-> <<>>, confidences |-> <<>>, sampled |-> {}, result |-> NoResult]
             ELSE [fn |-> "selfie_face", pc |-> "returned", input |-> video, frame_count |-> 0,
                   embeddings |-> <<>>, confidences |-> <<>>, sampled |-> {}, result |-> face_extraction_failed]
    /\ UNCHANGED <<settings, dIn, dOut, dPrev, pipeVars, pv>>

\* Lines 117-157: one turn of the while loop, and what follows the loop when
\* it ends here.
selfie_read ==
    /\ ex.fn = "selfie_face" /\ ex.pc = "loop"
    /\ LET n == ex.frame_count
           video == ex.input
           frame == FrameAt(video, n)
           result == extract_face(frame, video.backend)
       IN  IF n < SelfieMaxFrames /\ ReadOk(video, n)
           THEN IF n % 3 = 0
                THEN IF frame.face = "corrupt"
                     THEN ex' = [ex EXCEPT !.pc = "returned", !.result = face_extraction_failed]
                     ELSE IF result.face_detected
                     THEN ex' = [ex EXCEPT !.frame_count = n + 1, !.sampled = @ \cup {n},
                                           !.embeddings = Append(@, result.embedding),
                                           !.confidences = Append(@, result.confidence)]
                     ELSE ex' = [ex EXCEPT !.frame_count = n + 1, !.sampled = @ \cup {n}]
                ELSE ex' = [ex EXCEPT !.frame_count = n + 1]
           ELSE ex' = [ex EXCEPT !.pc = "returned", !.result = selfie_result(ex.embeddings, ex.confidences)]
    /\ UNCHANGED <<settings, dIn, dOut, dPrev, pipeVars, pv>>

\* Embeddings handed to compare_faces: none, of dimension 2 and 3, the zero
\* vector, and the dimensions 128 and 256 of the two real models.
Ones(n) == [i \in 1 .. n |-> 1]
EmbeddingVectors ==
    { NoEmbedding, <<1, 0>>, <<0, 1>>, <<3, 4>>, <<4, 3>>, <<-1, 0>>, <<0, 0>>,
      <<1, 0, 0>>, <<1, 2, 2>>, Ones(128), Ones(256) }

\* np.dot on two vectors of the same length, summed over the index range.
RECURSIVE dot_range(_, _, _, _)
dot_range(a, b, lo, hi) ==
    IF lo > hi THEN 0
    ELSE IF lo = hi THEN a[lo] * b[lo]
    ELSE dot_range(a, b, lo, (lo + hi) \div 2) + dot_range(a, b, (lo + hi) \div 2 + 1, hi)

dot(a, b) == dot_range(a, b, 1, Len(a))

\* The cosine of two non-zero vectors, rounded down to hundredths and clamped
\* to [0, 1]: max(0.0, min(1.0, similarity)).
cosine(a, b) ==
    IF dot(a, b) <= 0 THEN 0
    ELSE LET below == {k \in 0 .. 100 : k * k * dot(a, a) * dot(b, b) <= 10000 * dot(a, b) * dot(a, b)}
         IN  Times(Unit, CHOOSE k \in below : \A j \in below : j <= k, 100)

\* A comparison that scales by the first embedding only and checks no length.
compare_faces_one_sided(embedding1, embedding2) ==
    IF embedding1 = <<>> THEN 0 ELSE cosine(embedding1, embedding2 \o embedding1)

\* compare_faces.  A zero vector has norm 0: the division gives nan, and
\* max(0.0, min(1.0, nan)) is 1.0.
compare_faces(embedding1, embedding2) ==
    IF embedding1 = <<>> \/ embedding2 = <<>> \/ Len(embedding1) # Len(embedding2) THEN 0
    ELSE IF dot(embedding1, embedding1) = 0 \/ dot(embedding2, embedding2) = 0 THEN Unit
    ELSE cosine(embedding1, embedding2)

\* One call of compare_faces, and the call with the arguments exchanged.
compare_call(embedding1, embedding2) ==
    /\ ex.pc = "idle"
    /\ ex' = [fn |-> "compare", pc |-> "returned",
              input |-> [embedding1 |-> embedding1, embedding2 |-> embedding2],
              result |-> compare_faces(embedding1, embedding2),
              exchanged |-> compare_faces(embedding2, embedding1)]
    /\ UNCHANGED <<settings, dIn, dOut, dPrev, pipeVars, pv>>

(***************************************************************************)
(* LivenessService (liveness_service.py), passive method.                  *)
(***************************************************************************)
\* max_frames of _passive_liveness_detection.
PassiveMaxFrames == 50

\* A video for the liveness loops: whether it opens, how many frames can be
\* read, and whether reads keep succeeding after them.
LivenessLengths == {0, 1, 2, 3, 4, 5, 6, 9, 10, 11, 49, 50, 51}
LivenessVideos == [opened : BOOLEAN, length : LivenessLengths, endless : BOOLEAN]

\* A read that never fails.
LivenessReadOk_never_fails(video, n) == TRUE

\* ret, frame = cap.read() for the read number n (from 0).
LivenessReadOk(video, n) == n < video.length \/ (video.endless /\ video.length > 0)

\* What the sampled frames show, the same in every frame: the variance of the
\* Laplacian (lap), the mean optical-flow magnitude between two consecutive
\* sampled frames in hundredths of a pixel (mag), and the analysis that
\* raises on them, if any.
Laps == {0, 20, 30, 90, 91, 100, 250, 500, 1000}
Mags == {0, 50, 99, 100, 500, 800, 801, 1500}
FrameContents == [lap : Laps, mag : Mags, raises : {"none", "motion", "texture", "blur"}]

\* The frames have not been analysed.
NoContent == [lap |-> 0, mag |-> 0, raises |-> "unread"]

Min(a, b) == IF a <= b THEN a ELSE b
Max(a, b) == IF a >= b THEN a ELSE b

\* _analyze_motion on at least 2 frames.
analyze_motion(content) ==
    IF content.raises = "motion" THEN Times(Unit, 5, 10)
    ELSE LET avg_motion == Min((content.mag * Unit) \div 1000, Unit)
         IN  IF Times(Unit, 1, 10) <= avg_motion /\ avg_motion <= Times(Unit, 8, 10) THEN avg_motion
             ELSE IF avg_motion < Times(Unit, 1, 10) THEN avg_motion * 2
             ELSE Times(Unit, 5, 10)

\* _analyze_texture on at least 3 frames.
analyze_texture(content) ==
    IF content.raises = "texture" THEN Times(Unit, 5, 10)
    ELSE Max(Min((content.lap * Unit) \div 500, Unit), Times(Unit, 3, 10))

\* The blur score without its bands: the normalized value as it is.
analyze_blur_unbanded(content) ==
    IF content.raises = "blur" THEN Times(Unit, 5, 10)
    ELSE Min((content.lap * Unit) \div 100, Unit)

\* _analyze_blur on at least 1 frame.
analyze_blur(content) ==
    IF content.raises = "blur" THEN Times(Unit, 5, 10)
    ELSE LET avg_blur == Min((content.lap * Unit) \div 100, Unit)
         IN  IF Times(Unit, 3, 10) <= avg_blur /\ avg_blur <= Times(Unit, 9, 10) THEN avg_blur
             ELSE IF avg_blur < Times(Unit, 3, 10) THEN Times(avg_blur, 15, 10)
             ELSE Times(Unit, 8, 10)

\* Lines 87-94.
passive_insufficient_wrong_reason ==
    [liveness_detected |-> FALSE, liveness_score |-> 0, confidence |-> 0, method |-> "passive", reason |-> "Could not analyze"]

passive_insufficient ==
    [liveness_detected |-> FALSE, liveness_score |-> 0, confidence |-> 0, method |-> "passive", reason |-> "Insufficient frames"]

\* Lines 125-133.
passive_failure ==
    [liveness_detected |-> FALSE, liveness_score |-> 0, confidence |-> 0, method |-> "passive", error |-> "exc"]

\* A passive result that weighs the three indicators equally.
passive_scored_equal_weights(content) ==
    LET liveness_score == (analyze_motion(content) + analyze_texture(content) + analyze_blur(content)) \div 3
    IN  [liveness_detected |-> liveness_score > Times(Unit, 6, 10), liveness_score |-> liveness_score,
         confidence |-> liveness_score, method |-> "passive",
         indicators |-> [motion |-> analyze_motion(content), texture |-> analyze_texture(content),
                         blur |-> analyze_blur(content)]]

\* Lines 96-123: the weighted combination and the threshold.
passive_scored(content) ==
    LET motion_score == analyze_motion(content)
        texture_score == analyze_texture(content)
        blur_score == analyze_blur(content)
        liveness_score == Times(motion_score, 4, 10) + Times(texture_score, 4, 10) + Times(blur_score, 2, 10)
        is_live == liveness_score >= Times(Unit, 6, 10)
    IN  [liveness_detected |-> is_live, liveness_score |-> liveness_score,
         confidence |-> IF is_live THEN Min(Times(liveness_score, 12, 10), Unit) ELSE Times(liveness_score, 8, 10),
         method |-> "passive",
         indicators |-> [motion |-> motion_score, texture |-> texture_score, blur |-> blur_score]]

\* Lines 65-72: open the video.
passive_open(video) ==
    /\ ex.pc = "idle"
    /\ ex' = IF video.opened
             THEN [fn |-> "passive", pc |-> "loop", input |-> video, frame_count |-> 0, frames |-> 0,
                   content |-> NoContent, result |-> NoResult]
             ELSE [fn |-> "passive", pc |-> "returned", input |-> video, frame_count |-> 0, frames |-> 0,
                   content |-> NoContent, result |-> passive_failure]
    /\ UNCHANGED <<settings, dIn, dOut, dPrev, pipeVars, pv>>

\* Lines 75-94: one turn of the while loop; when the loop ends here, the check
\* of the number of sampled frames.
passive_read ==
    /\ ex.fn = "passive" /\ ex.pc = "loop"
    /\ LET n == ex.frame_count
       IN  IF n < PassiveMaxFrames /\ LivenessReadOk(ex.input, n)
           THEN ex' = [ex EXCEPT !.frame_count = n + 1, !.frames = IF n % 2 = 0 THEN @ + 1 ELSE @]
           ELSE IF ex.frames < 3
           THEN ex' = [ex EXCEPT !.pc = "returned", !.result = passive_insufficient]
           ELSE ex' = [ex EXCEPT !.pc = "analyze"]
    /\ UNCHANGED <<settings, dIn, dOut, dPrev, pipeVars, pv>>

\* Lines 96-123: analyse the sampled frames, whose content is chosen here.
passive_analyze(content) ==
    /\ ex.fn = "passive" /\ ex.pc = "analyze"
    /\ ex' = [ex EXCEPT !.pc = "returned", !.content = content, !.result = passive_scored(content)]
    /\ UNCHANGED <<settings, dIn, dOut, dPrev, pipeVars, pv>>

(***************************************************************************)
(* LivenessService, active method.                                         *)
(***************************************************************************)
\* max_frames of _active_liveness_detection.
ActiveMaxFrames == 100

\* What the frames show for the active cues: whether a face is found in some
\* frame, the mean and the standard deviation of the per-frame blink scores
\* (each 0, 1/3, 2/3 or 1), the number of frames with a face position and the
\* mean variance of the positions in square pixels, and the analysis that
\* raises, if any.
ActiveCues ==
    [faces : BOOLEAN, avg_blink : {0, Unit \div 3, Unit}, variation : {0, Unit \div 2},
     positions : {0, 4, 5}, variance : {0, 50, 69, 70, 100, 250}, raises : {"none", "blink", "head"}]

\* _detect_blinking
detect_blinking(cues) ==
    IF cues.raises = "blink" \/ ~cues.faces THEN 0
    ELSE Min((cues.avg_blink + cues.variation) \div 2, Unit)

\* Head movement without the scaling to the 0-1 range.
detect_head_movement_unscaled(cues) ==
    IF cues.raises = "head" \/ cues.positions < 5 THEN 0
    ELSE ((cues.variance * Unit) \div 1000) * 10

\* _detect_head_movement
detect_head_movement(cues) ==
    IF cues.raises = "head" \/ cues.positions < 5 THEN 0
    ELSE Min(((cues.variance * Unit) \div 1000) * 10, Unit)

\* Lines 159-166.
active_insufficient ==
    [liveness_detected |-> FALSE, liveness_score |-> 0, confidence |-> 0, method |-> "active",
     reason |-> "Insufficient frames for active analysis"]

\* Lines 191-199.
active_failure ==
    [liveness_detected |-> FALSE, liveness_score |-> 0, confidence |-> 0, method |-> "active", error |-> "exc"]

\* The score taken as the smaller of the two cues.
active_scored_min(cues) ==
    LET blink_score == detect_blinking(cues)
        head_movement_score == detect_head_movement(cues)
        active_score == Min(blink_score, head_movement_score)
        is_live == active_score >= Times(Unit, 7, 10)
    IN  [liveness_detected |-> is_live, liveness_score |-> active_score,
         confidence |-> IF is_live THEN Times(active_score, 11, 10) ELSE Times(active_score, 9, 10),
         method |-> "active",
         indicators |-> [blinking |-> blink_score, head_movement |-> head_movement_score]]

\* Lines 168-189.
active_scored(cues) ==
    LET blink_score == detect_blinking(cues)
        head_movement_score == detect_head_movement(cues)
        active_score == Max(blink_score, head_movement_score)
        is_live == active_score >= Times(Unit, 7, 10)
    IN  [liveness_detected |-> is_live, liveness_score |-> active_score,
         confidence |-> IF is_live THEN Times(active_score, 11, 10) ELSE Times(active_score, 9, 10),
         method |-> "active",
         indicators |-> [blinking |-> blink_score, head_movement |-> head_movement_score]]

\* Lines 140-147: open the video.
active_open(video) ==
    /\ ex.pc = "idle"
    /\ ex' = IF video.opened
             THEN [fn |-> "active", pc |-> "loop", input |-> video, frame_count |-> 0, frames |-> 0,
                   content |-> NoContent, result |-> NoResult]
             ELSE [fn |-> "active", pc |-> "returned", input |-> video, frame_count |-> 0, frames |-> 0,
                   content |-> NoContent, result |-> active_failure]
    /\ UNCHANGED <<settings, dIn, dOut, dPrev, pipeVars, pv>>

\* Lines 150-166: one turn of the while loop; when the loop ends here, the
\* check of the number of frames.
active_read ==
    /\ ex.fn = "active" /\ ex.pc = "loop"
    /\ LET n == ex.frame_count
       IN  IF n < ActiveMaxFrames /\ LivenessReadOk(ex.input, n)
           THEN ex' = [ex EXCEPT !.frame_count = n + 1, !.frames = @ + 1]
           ELSE IF ex.frames < 10
           THEN ex' = [ex EXCEPT !.pc = "returned", !.result = active_insufficient]
           ELSE ex' = [ex EXCEPT !.pc = "analyze"]
    /\ UNCHANGED <<settings, dIn, dOut, dPrev, pipeVars, pv>>

\* Lines 168-189: analyse the frames, whose content is chosen here.
active_analyze(cues) ==
    /\ ex.fn = "active" /\ ex.pc = "analyze"
    /\ ex' = [ex EXCEPT !.pc = "returned", !.content = cues, !.result = active_scored(cues)]
    /\ UNCHANGED <<settings, dIn, dOut, dPrev, pipeVars, pv>>

(***************************************************************************)
(* One call of one extractor service.                                      *)
(***************************************************************************)
InitExtract ==
    /\ settings = DefaultSettings
    /\ dIn = Unset
    /\ dOut = NoResult
    /\ dPrev = NoResult
    /\ PipeIdle
    /\ pv = IdleCall
    /\ ex = IdleExtractor

NextExtract ==
    \/ ex.pc = "idle" /\ \E image \in DocumentImages : document_call(image)
    \/ ex.pc = "idle" /\ \E data \in ParsedDocuments, doc_type \in DocumentTypes : validate_call(data, doc_type)
    \/ ex.pc = "idle" /\ \E image \in DocumentFaceImages : document_face_call(image)
    \/ ex.pc = "idle" /\ \E video \in SelfieVideos : selfie_open(video)
    \/ selfie_read
    \/ ex.pc = "idle" /\ \E embedding1 \in EmbeddingVectors, embedding2 \in EmbeddingVectors : compare_call(embedding1, embedding2)
    \/ ex.pc = "idle" /\ \E video \in LivenessVideos : passive_open(video)
    \/ passive_read
    \/ ex.pc = "analyze" /\ \E content \in FrameContents : passive_analyze(content)
    \/ ex.pc = "idle" /\ \E video \in LivenessVideos : active_open(video)
    \/ active_read
    \/ ex.pc = "analyze" /\ \E cues \in ActiveCues : active_analyze(cues)

SpecExtract == InitExtract /\ [][NextExtract]_vars

Called(fn) == ex.fn = fn /\ ex.pc = "returned"

\* The image could not be read or its processing raised.
DocumentFailed == ~ex.input.readable \/ ex.input.corrupt

\* C15: process_document never raises: every call returns a result, and when
\* the image is unreadable or processing it fails inside, the result is type
\* unknown, valid false, confidence 0, no fields, with an error note.
C15_DocumentNeverRaises ==
    ex.fn = "document"
        => /\ ex.pc = "returned"
           /\ "document_valid" \in DOMAIN ex.result
           /\ DocumentFailed
                => /\ ex.result.document_type = "unknown"
                   /\ ex.result.document_valid = FALSE
                   /\ ex.result.confidence = 0
                   /\ ex.result.extracted_data = <<>>
                   /\ "error" \in DOMAIN ex.result

C15_Witness == Called("document") /\ ex.input.readable /\ ex.input.corrupt /\ ex.result.confidence = 0

(***************************************************************************)
(* The face extractor.                                                     *)
(***************************************************************************)
\* No frame the selfie loop handed to the detector shows a face.
NoSampledFace == \A n \in ex.sampled : FrameAt(ex.input, n).face # "found"

NotDetected(result) ==
    result.face_detected = FALSE /\ result.embedding = NoEmbedding /\ result.confidence = 0

\* C16: when no face is found, in the document image or in any sampled selfie
\* frame, the extractor returns detected false, no embedding and confidence 0
\* as a normal result; detected true comes only with a non-empty embedding.
C16_NoFaceIsNormalResult ==
    /\ ex.fn = "document_face"
        => /\ ex.pc = "returned"
           /\ ex.input.frame.face = "none" => NotDetected(ex.result)
           /\ ex.result.face_detected => Len(ex.result.embedding) > 0
    /\ Called("selfie_face")
        => /\ NoSampledFace => NotDetected(ex.result)
           /\ ex.result.face_detected => Len(ex.result.embedding) > 0

C16_Witness ==
    /\ Called("selfie_face")
    /\ Cardinality(ex.sampled) >= 2
    /\ NoSampledFace
    /\ \E n \in 1 .. Len(ex.input.frames) : ex.input.frames[n].face = "found"
    /\ NotDetected(ex.result)

\* C17: compare_faces is symmetric, and it returns 0 whenever an embedding is
\* absent or empty or the two embeddings have different lengths (128 and 256
\* for example).
C17_CompareSymmetric ==
    Called("compare")
        => /\ ex.result = ex.exchanged
           /\ \/ ex.input.embedding1 = NoEmbedding
              \/ ex.input.embedding2 = NoEmbedding
              \/ Len(ex.input.embedding1) # Len(ex.input.embedding2)
              => ex.result = 0

C17_Witness ==
    /\ Called("compare")
    /\ Len(ex.input.embedding1) = 128
    /\ Len(ex.input.embedding2) = 256
    /\ ex.result = 0
    /\ ex.exchanged = 0

(***************************************************************************)
(* Passive liveness.                                                       *)
(***************************************************************************)
\* The passive loop sampled fewer than 3 frames of a video that opened.
TooFewFrames == Called("passive") /\ ex.input.opened /\ ex.frames < 3

Scored == Called("passive") /\ "indicators" \in DOMAIN ex.result

\* C19 as stated: fewer than 3 sampled frames give passed false, score 0 and
\* the reason 'insufficient_frames'; 3 or more sampled frames are scored.
C19_InsufficientFramesToken ==
    /\ TooFewFrames
        => /\ ex.result.liveness_detected = FALSE
           /\ ex.result.liveness_score = 0
           /\ Get(ex.result, "reason", None) = "insufficient_frames"
    /\ Called("passive") /\ ex.frames >= 3 => Scored

\* C19 amended: fewer than 3 sampled frames (a 2-frame video for one) give
\* passed false, score 0 and the reason 'Insufficient frames'; a video with 3
\* or more sampled frames is scored, never rejected for its frame count.
C19_InsufficientFrames ==
    /\ TooFewFrames
        => /\ ex.result.liveness_detected = FALSE
           /\ ex.result.liveness_score = 0
           /\ Get(ex.result, "reason", None) = "Insufficient frames"
    /\ Called("passive") /\ ex.frames >= 3 => Scored /\ Get(ex.result, "reason", None) = None

C19_Witness ==
    /\ TooFewFrames
    /\ ex.input.length = 2
    /\ ~ex.input.endless
    /\ ex.frames = 1
    /\ ex.result.reason = "Insufficient frames"

\* C20: every passive result computed from enough frames has score =
\* 0.4*motion + 0.4*texture + 0.2*blur of the sub-scores it reports, and
\* passed exactly when score >= 0.6.
C20_PassiveScoreFormula ==
    Scored
        => /\ 10 * ex.result.liveness_score
                = 4 * ex.result.indicators.motion + 4 * ex.result.indicators.texture
                    + 2 * ex.result.indicators.blur
           /\ ex.result.liveness_detected <=> ex.result.liveness_score >= Times(Unit, 6, 10)

C20_Witness ==
    /\ Scored
    /\ ex.result.liveness_score = Times(Unit, 6, 10)
    /\ ex.result.liveness_detected
    /\ ex.content.raises = "none"

(***************************************************************************)
(* The range of the scores.                                                *)
(***************************************************************************)
InRange(score) == 0 <= score /\ score <= Unit

\* C18: every score and similarity the extractors return lies in [0,1]: the
\* document confidence, the face detection confidences, the face similarity,
\* the passive and active liveness scores and each liveness sub-score, for
\* every input and on every failure path.
C18_ScoresInRange ==
    /\ Called("document") => InRange(ex.result.confidence)
    /\ Called("document_face") \/ Called("selfie_face") => InRange(ex.result.confidence)
    /\ Called("compare") => InRange(ex.result) /\ InRange(ex.exchanged)
    /\ Called("passive") \/ Called("active")
        => /\ InRange(ex.result.liveness_score)
           /\ "indicators" \in DOMAIN ex.result
                => \A k \in DOMAIN ex.result.indicators : InRange(ex.result.indicators[k])

C18_Witness ==
    /\ Called("active")
    /\ "indicators" \in DOMAIN ex.result
    /\ ex.content.variance = 250
    /\ ex.result.indicators.head_movement = Unit
    /\ ex.result.liveness_score = Unit

(***************************************************************************)
(* The frame loops.                                                        *)
(***************************************************************************)
\* The reads the loop of the call has made are within the cap, and within the
\* frames the video has unless its reads never fail.
ReadsWithin(cap, frames_in_video) ==
    /\ ex.frame_count <= cap
    /\ ~ex.input.endless => ex.frame_count <= frames_in_video

\* One turn of a frame loop, or its end.
LoopTurn == selfie_read \/ passive_read \/ active_read

\* C21: every frame-reading loop ends under its cap: selfie face extraction
\* reads at most 30 frames, passive liveness at most 50, active liveness at
\* most 100, and no loop reads past the first failed read; a call in its loop
\* can always take a turn, and every turn either counts one more read or
\* leaves the loop, whatever the video's length or content.
C21_LoopsTerminate ==
    /\ [](ex.fn = "selfie_face" => ReadsWithin(SelfieMaxFrames, Len(ex.input.frames)))
    /\ [](ex.fn = "passive" => ReadsWithin(PassiveMaxFrames, ex.input.length))
    /\ [](ex.fn = "active" => ReadsWithin(ActiveMaxFrames, ex.input.length))
    /\ [](ex.pc = "loop" => ENABLED <<LoopTurn>>_vars)
    /\ [][ex.pc = "loop" => ex'.pc # "loop" \/ ex'.frame_count = ex.frame_count + 1]_vars

C21_Witness ==
    /\ Called("active")
    /\ ex.input.endless
    /\ ex.frame_count = ActiveMaxFrames

(***************************************************************************)
(* Active liveness.                                                        *)
(***************************************************************************)
ActiveTooFewFrames == Called("active") /\ ex.input.opened /\ ex.frames < 10

ActiveScored == Called("active") /\ "indicators" \in DOMAIN ex.result

ActiveScoreRule ==
    ActiveScored
        => /\ ex.result.liveness_score = Max(ex.result.indicators.blinking, ex.result.indicators.head_movement)
           /\ ex.result.liveness_detected <=> ex.result.liveness_score >= Times(Unit, 7, 10)

\* C22 as stated: fewer than 10 readable frames give passed false, score 0
\* and the reason 'insufficient_frames_active'; with 10 or more frames the
\* score is max(blink, head_movement) and passed is score >= 0.7.
C22_ActiveFramesToken ==
    /\ ActiveTooFewFrames
        => /\ ex.result.liveness_detected = FALSE
           /\ ex.result.liveness_score = 0
           /\ Get(ex.result, "reason", None) = "insufficient_frames_active"
    /\ Called("active") /\ ex.frames >= 10 => ActiveScored
    /\ ActiveScoreRule

\* C22 amended: fewer than 10 readable frames give passed false, score 0 and
\* the reason 'Insufficient frames for active analysis'; with 10 or more
\* frames the score is max(blink, head_movement) and passed is score >= 0.7.
C22_ActiveFrames ==
    /\ ActiveTooFewFrames
        => /\ ex.result.liveness_detected = FALSE
           /\ ex.result.liveness_score = 0
           /\ Get(ex.result, "reason", None) = "Insufficient frames for active analysis"
    /\ Called("active") /\ ex.frames >= 10 => ActiveScored /\ Get(ex.result, "reason", None) = None
    /\ ActiveScoreRule

C22_Witness ==
    /\ ActiveScored
    /\ ex.frames = 10
    /\ ex.result.indicators.blinking < ex.result.indicators.head_movement
    /\ ex.result.liveness_score = Times(Unit, 7, 10)
    /\ ex.result.liveness_detected

(***************************************************************************)
(* The motion sub-score.                                                   *)
(***************************************************************************)
\* avg_motion of _analyze_motion: the mean flow magnitude over 10, at most 1.
avg_motion_of(content) == Min((content.mag * Unit) \div 1000, Unit)

MotionAnalysed == Scored /\ ex.content.raises # "motion"

\* C23: the motion sub-score is band-limited over the normalized average
\* motion m: m in [0.1, 0.8] is returned unchanged, m below 0.1 is doubled
\* and the returned score is below that of every plausible motion, m above
\* 0.8 is returned as 0.5, and the returned score is at most 0.8.
C23_MotionBandLimited ==
    MotionAnalysed
        => LET m == avg_motion_of(ex.content)
               motion == ex.result.indicators.motion
           IN  /\ Times(Unit, 1, 10) <= m /\ m <= Times(Unit, 8, 10) => motion = m
               /\ m < Times(Unit, 1, 10) => motion = 2 * m /\ motion < Times(Unit, 1, 10)
               /\ m > Times(Unit, 8, 10) => motion = Times(Unit, 5, 10)
               /\ motion <= Times(Unit, 8, 10)

(***************************************************************************)
(* The document confidence.                                                *)
(***************************************************************************)
\* The required fields of the type that the data holds, not empty.
PresentFields(data, doc_type) ==
    {f \in required_fields(doc_type) : Get(data, f, <<>>) # <<>>}

\* The format score of the identifiers, in tenths: 3 for a passport number of
\* one capital letter and eight digits, 3 for an id number of six characters
\* or more.
FormatTenths(data) ==
    (IF match_passport_number(Get(data, "passport_number", <<>>)) THEN 3 ELSE 0)
        + (IF Len(Get(data, "id_number", <<>>)) >= 6 THEN 3 ELSE 0)

\* C24: for every parsed document the confidence is 0.7 * (fraction of the
\* type's required fields that are present) + 0.3 * (format score of the
\* identifier), and the document is valid exactly when the confidence is at
\* least 0.5.
C24_DocumentConfidence ==
    Called("validate")
        => LET data == ex.input.data
               doc_type == ex.input.doc_type
               n == Cardinality(required_fields(doc_type))
               present == Cardinality(PresentFields(data, doc_type))
               confidence == ex.result.confidence
           IN  /\ n > 0 => 100 * n * confidence = Unit * (70 * present + 3 * n * FormatTenths(data))
               /\ n = 0 => 100 * confidence = Unit * 3 * FormatTenths(data)
               /\ ex.result.is_valid <=> 10 * confidence >= 5 * Unit

C24_Witness ==
    /\ Called("validate")
    /\ ex.input.doc_type = "national_id"
    /\ Cardinality(PresentFields(ex.input.data, "national_id")) = 2
    /\ FormatTenths(ex.input.data) = 3
    /\ ex.result.is_valid
    /\ 300 * ex.result.confidence = 167 * Unit

(***************************************************************************)
(* The document type.                                                      *)
(***************************************************************************)
\* lo/10 <= width / height <= hi/10
RatioIn(image, lo, hi) == lo * image.height <= 10 * image.width /\ 10 * image.width <= hi * image.height

\* C25: the document type follows from the aspect ratio alone: a ratio in
\* 1.4-1.7 is passport, a ratio in 0.6-0.8 national_id, a ratio in 1.5-1.8
\* drivers_license, any other ratio unknown.
C25_TypeByAspectRatio ==
    Called("document") /\ ~DocumentFailed
        => LET image == ex.input
               type == ex.result.document_type
           IN  /\ RatioIn(image, 14, 17) => type = "passport"
               /\ RatioIn(image, 6, 8) => type = "national_id"
               /\ RatioIn(image, 15, 18) => type = "drivers_license"
               /\ ~RatioIn(image, 14, 17) /\ ~RatioIn(image, 6, 8) /\ ~RatioIn(image, 15, 18) => type = "unknown"

(***************************************************************************)
(* The order of the steps of one attempt.                                  *)
(***************************************************************************)
Produced(signal) == signal # Unset

FaceExtracted(result) == Produced(result) /\ Get(result, "face_detected", FALSE)

\* The comparison is about to run or has given the face signal.
Comparing ==
    \/ pv.pc = "compare"
    \/ Produced(pv.face_result) /\ pv.face_result \in {face_compared(sim) : sim \in PipeSimilarities}

\* The decision step is about to run or has returned its result.
Deciding == pv.pc = "aggregate" \/ (Returned /\ pv.result # FailedResult)

\* C26: within one attempt the comparison starts only after both the
\* document-face and the selfie-face extraction have completed with a
\* detected face, and the decision step starts only after the document, face
\* and liveness signals have all been produced.
C26_SynchronizationPoints ==
    /\ Comparing => FaceExtracted(pv.doc_face_result) /\ FaceExtracted(pv.selfie_face_result)
    /\ Deciding => Produced(pv.document_result) /\ Produced(pv.face_result) /\ Produced(pv.liveness_result)

C26_Witness ==
    /\ Returned
    /\ pv.result # FailedResult
    /\ pv.face_result = face_compared(90)
    /\ FaceExtracted(pv.doc_face_result)
    /\ FaceExtracted(pv.selfie_face_result)
    /\ Produced(pv.liveness_result)

(***************************************************************************)
(* The face of the selfie video.                                           *)
(***************************************************************************)
\* The frames read whose number is a multiple of 3 and in which the detector
\* of the call finds a face.
SampledFaces ==
    {n \in 0 .. ex.frame_count - 1 : n % 3 = 0 /\ extract_face(FrameAt(ex.input, n), ex.input.backend).face_detected}

ConfidenceAt(n) == extract_face(FrameAt(ex.input, n), ex.input.backend).confidence

SelfieFaceReturned == Called("selfie_face") /\ ex.result.face_detected

\* C27: selfie face extraction samples every 3rd frame out of at most 30
\* and returns the embedding and the confidence of the sampled frame whose
\* face has the highest confidence among the sampled frames with a face;
\* frames that are not sampled do not influence the result.
C27_BestSampledFace ==
    /\ ex.fn = "selfie_face" => ex.sampled \subseteq {n \in 0 .. SelfieMaxFrames - 1 : n % 3 = 0}
    /\ SelfieFaceReturned
        => \E n \in SampledFaces :
              /\ ex.result.confidence = ConfidenceAt(n)
              /\ ex.result.embedding = FrameAt(ex.input, n).embedding
              /\ \A k \in SampledFaces : ConfidenceAt(k) <= ConfidenceAt(n)
    /\ Called("selfie_face") /\ ~ex.result.face_detected /\ ex.result # face_extraction_failed
        => SampledFaces = {}

C27_Witness ==
    /\ SelfieFaceReturned
    /\ ex.input.backend = "facenet"
    /\ Len(ex.input.frames) = 4
    /\ ~ex.input.endless
    /\ ConfidenceAt(0) = Times(Unit, 90, 100)
    /\ FrameAt(ex.input, 1).prob = Times(Unit, 99, 100)
    /\ FrameAt(ex.input, 3).face = "none"
    /\ ex.result.confidence = Times(Unit, 90, 100)

Hundredths(score) == (score * 100) \div Unit

\* The liveness signal the orchestrator builds from the passive result.
PassiveSignal ==
    [liveness_detected |-> ex.result.liveness_detected,
     liveness_score |-> Hundredths(ex.result.liveness_score), error |-> None]

\* The decision of an attempt with this passive result, under the default
\* thresholds, for a document and a face signal.
DecisionWith(doc, face) == aggregate_results(doc, face, PassiveSignal, DefaultSettings).decision

FaceMissingIn(result) == Produced(result) /\ ~Get(result, "face_detected", FALSE)

\* C30: whenever a face is missing from the document image or from the
\* selfie video, the decision of the attempt is rejected, for every
\* configured faceMatch threshold and whatever the document and liveness
\* signals are.
C30_MissingFaceRejected ==
    Returned /\ (FaceMissingIn(pv.doc_face_result) \/ FaceMissingIn(pv.selfie_face_result))
        => pv.result.decision = "rejected"

====
